---- MODULE Spec2Model ----
(***************************************************************************)
(* Model of spellcheck_server/app.py: the POST /check endpoint            *)
(* check_spelling, the framework's handling of its required form field,   *)
(* the external capability spell_checker.check and the event loop of each *)
(* server process on which the coroutine check_spelling runs.              *)
(***************************************************************************)
EXTENDS Integers, Sequences, FiniteSets, TLC

(* ------------------------------ bounds --------------------------------- *)
NumRequests == 2
NumWorkers == 1

Requests == 1..NumRequests
Workers == 1..NumWorkers

(* ------------------------- values of the program ----------------------- *)
\* Texts a caller may submit in the form field `text`.
Texts == {"ab", "a b"}

\* A Python value: its type, and its string or integer payload.
PyStr(s) == [t |-> "str", s |-> s, n |-> 0]
PyInt(n) == [t |-> "int", s |-> "", n |-> n]
\* A value json.dumps cannot serialise.
PyBytes == [t |-> "bytes", s |-> "", n |-> 0]
\* The object has no such attribute.
Missing == [t |-> "missing", s |-> "", n |-> 0]
\* The local variable is not bound yet.
Unbound == [t |-> "unbound", s |-> "", n |-> 0]

\* The submitted form: with or without the field `text`.
Forms == {[has_text |-> FALSE, text |-> ""]} \cup {[has_text |-> TRUE, text |-> s] : s \in Texts}
NoForm == [has_text |-> FALSE, text |-> "<none>"]

\* What the opaque capability may return: an object whose attributes checked
\* and errors are of the documented types, of another type, or absent.
CheckedValues == {PyStr(s) : s \in Texts} \cup {PyBytes, Missing}
ErrorCounts == {0, 1}
ErrorsValues == {PyInt(n) : n \in ErrorCounts} \cup {Missing}
Results == [checked : CheckedValues, errors : ErrorsValues]
NoResult == [checked |-> Unbound, errors |-> Unbound]

\* What the opaque capability may raise (subclasses of Exception).
NoExc == [cls |-> "", args |-> <<>>]
CapabilityErrors ==
  { [cls |-> "ConnectionError", args |-> <<"timeout">>],
    [cls |-> "ConnectionError", args |-> <<>>],
    [cls |-> "KeyError", args |-> <<"message">>] }
AttributeError(name) == [cls |-> "AttributeError", args |-> <<name>>]
SerialiseError == [cls |-> "TypeError", args |-> <<"not JSON serializable">>]

\* str(e) of an exception: empty without arguments, the repr of the key
\* for a KeyError, the argument otherwise.
ExcStr(e) ==
  IF e.args = <<>> THEN ""
  ELSE IF e.cls = "KeyError" THEN "'" \o e.args[1] \o "'"
  ELSE e.args[1]

\* `except Exception` catches every subclass of Exception.
ExceptionClasses == {"ConnectionError", "KeyError", "AttributeError", "TypeError"}
CatchesOnlyCapabilityErrors(e) == e.cls \in {"ConnectionError", "KeyError"}
Catches(e) == e.cls \in ExceptionClasses

\* json.dumps of a value inside the response body.
SerialisableAnything(v) == TRUE
Serialisable(v) == v.t \in {"str", "int"}
ToJson(v) ==
  IF v.t = "str" THEN [j |-> "string", s |-> v.s, n |-> 0]
  ELSE IF v.t = "int" THEN [j |-> "number", s |-> "", n |-> v.n]
  ELSE [j |-> "invalid", s |-> "", n |-> 0]
JsonString(s) == ToJson(PyStr(s))

(* ------------------------------- state --------------------------------- *)
VARIABLES
  pc,        \* position of each request
  form,      \* the form each request submitted
  worker,    \* the server process that received the request
  loop,      \* per process: the request whose coroutine holds the event loop, or 0
  text,      \* parameter text of check_spelling
  calls,     \* arguments of the calls spell_checker.check made for the request
  result,    \* local result
  corrected, \* local corrected
  exc,       \* exception raised inside the try block
  resp       \* response sent to the caller

vars == <<pc, form, worker, loop, text, calls, result, corrected, exc, resp>>

NoResponse == [status |-> 0, kind |-> "none", body |-> [none |-> TRUE]]

Init ==
  /\ pc = [r \in Requests |-> "idle"]
  /\ form = [r \in Requests |-> NoForm]
  /\ worker = [r \in Requests |-> 0]
  /\ loop = [w \in Workers |-> 0]
  /\ text = [r \in Requests |-> ""]
  /\ calls = [r \in Requests |-> <<>>]
  /\ result = [r \in Requests |-> NoResult]
  /\ corrected = [r \in Requests |-> Unbound]
  /\ exc = [r \in Requests |-> NoExc]
  /\ resp = [r \in Requests |-> NoResponse]

(* ----------------------------- the endpoint ---------------------------- *)
\* text: str = Form(...): the field is required.
TextOptional == FALSE
TextRequired == TRUE

\* The argument of spell_checker.check(text).
CheckArgStripped(r) == IF text[r] = "a b" THEN "ab" ELSE text[r]
CheckArg(r) == text[r]

\* corrected = result.checked
CorrectedShared(r) ==
  LET q == CHOOSE q \in Requests :
             /\ result[q] # NoResult
             /\ \A p \in Requests : result[p] # NoResult => q <= p
  IN result[q].checked
CorrectedEcho(r) == PyStr(text[r])
Corrected(r) == result[r].checked

\* result.errors
ErrataCountShared(r) == PyInt(Cardinality({q \in Requests : calls[q] # <<>>}))
ErrataCount(r) == result[r].errors

\* The body of the success response.
SuccessBodySwapped(r) ==
  [corrected |-> JsonString(text[r]),
   original |-> ToJson(corrected[r]),
   result |-> [errata_count |-> ToJson(ErrataCount(r))]]
SuccessBody(r) ==
  [corrected |-> ToJson(corrected[r]),
   original |-> JsonString(text[r]),
   result |-> [errata_count |-> ToJson(ErrataCount(r))]]

\* The body of the degraded response.
DegradedBodyEmpty(r) ==
  [corrected |-> JsonString(""),
   original |-> JsonString(text[r]),
   error |-> JsonString(ExcStr(exc[r]))]
DegradedBody(r) ==
  [corrected |-> JsonString(text[r]),
   original |-> JsonString(text[r]),
   error |-> JsonString(ExcStr(exc[r]))]

SuccessResponse(r) == [status |-> 200, kind |-> "json", body |-> SuccessBody(r)]
DegradedResponse(r) == [status |-> 500, kind |-> "json", body |-> DegradedBody(r)]
\* The framework's answers: validation error, and unhandled exception.
ValidationResponse == [status |-> 422, kind |-> "json", body |-> [detail |-> "missing"]]
CrashResponse == [status |-> 500, kind |-> "text", body |-> [plain |-> "Internal Server Error"]]

\* The coroutine returns: the response is sent, the event loop is free and
\* the request has left its process.
Return(r, response) ==
  /\ resp' = [resp EXCEPT ![r] = response]
  /\ pc' = [pc EXCEPT ![r] = "done"]
  /\ loop' = [loop EXCEPT ![worker[r]] = 0]
  /\ worker' = [worker EXCEPT ![r] = 0]

\* An exception e is raised inside the try block.
Raise(r, e) ==
  /\ exc' = [exc EXCEPT ![r] = e]
  /\ IF Catches(e)
       THEN /\ pc' = [pc EXCEPT ![r] = "except"]
            /\ UNCHANGED <<resp, loop, worker>>
       ELSE Return(r, CrashResponse)

\* A caller posts a form to /check; one of the server processes receives it.
Arrive(r, f, w) ==
  /\ pc[r] = "idle"
  /\ pc' = [pc EXCEPT ![r] = "received"]
  /\ form' = [form EXCEPT ![r] = f]
  /\ worker' = [worker EXCEPT ![r] = w]
  /\ UNCHANGED <<loop, text, calls, result, corrected, exc, resp>>

\* The framework rejects a form without the required field.
Reject(r) ==
  /\ pc[r] = "received"
  /\ loop[worker[r]] = 0
  /\ TextRequired /\ ~form[r].has_text
  /\ resp' = [resp EXCEPT ![r] = ValidationResponse]
  /\ pc' = [pc EXCEPT ![r] = "done"]
  /\ worker' = [worker EXCEPT ![r] = 0]
  /\ UNCHANGED <<form, loop, text, calls, result, corrected, exc>>

\* The framework calls check_spelling(text) on the process's event loop.
Invoke(r) ==
  /\ pc[r] = "received"
  /\ loop[worker[r]] = 0
  /\ ~(TextRequired /\ ~form[r].has_text)
  /\ text' = [text EXCEPT ![r] = form[r].text]
  /\ loop' = [loop EXCEPT ![worker[r]] = r]
  /\ pc' = [pc EXCEPT ![r] = "try"]
  /\ UNCHANGED <<form, worker, calls, result, corrected, exc, resp>>

\* spell_checker.check(text) is called, synchronously.
CallCheck(r) ==
  /\ pc[r] = "try"
  /\ calls' = [calls EXCEPT ![r] = Append(@, CheckArg(r))]
  /\ pc' = [pc EXCEPT ![r] = "calling"]
  /\ UNCHANGED <<form, worker, loop, text, result, corrected, exc, resp>>

\* The capability returns a result.
CheckReturns(r, res) ==
  /\ pc[r] = "calling"
  /\ result' = [result EXCEPT ![r] = res]
  /\ pc' = [pc EXCEPT ![r] = "got_result"]
  /\ UNCHANGED <<form, worker, loop, text, calls, corrected, exc, resp>>

\* The capability raises an error.
CheckRaises(r, e) ==
  /\ pc[r] = "calling"
  /\ Raise(r, e)
  /\ UNCHANGED <<form, text, calls, result, corrected>>

\* The capability never returns.
CheckHangs(r) ==
  /\ pc[r] = "calling"
  /\ pc' = [pc EXCEPT ![r] = "hung"]
  /\ UNCHANGED <<form, worker, loop, text, calls, result, corrected, exc, resp>>

\* corrected = result.checked
ReadChecked(r) ==
  /\ pc[r] = "got_result"
  /\ IF Corrected(r) = Missing
       THEN /\ Raise(r, AttributeError("checked"))
            /\ UNCHANGED corrected
       ELSE /\ corrected' = [corrected EXCEPT ![r] = Corrected(r)]
            /\ pc' = [pc EXCEPT ![r] = "build"]
            /\ UNCHANGED <<exc, resp, loop, worker>>
  /\ UNCHANGED <<form, text, calls, result>>

\* return JSONResponse({...}): result.errors is read, the body is serialised.
ReturnSuccess(r) ==
  /\ pc[r] = "build"
  /\ IF ErrataCount(r) = Missing
       THEN Raise(r, AttributeError("errors"))
       ELSE IF ~Serialisable(corrected[r]) \/ ~Serialisable(ErrataCount(r))
         THEN Raise(r, SerialiseError)
         ELSE /\ Return(r, SuccessResponse(r))
              /\ UNCHANGED exc
  /\ UNCHANGED <<form, text, calls, result, corrected>>

\* except Exception as e: return JSONResponse({...}, status_code=500)
ReturnDegraded(r) ==
  /\ pc[r] = "except"
  /\ Return(r, DegradedResponse(r))
  /\ UNCHANGED <<form, text, calls, result, corrected, exc>>

Next ==
  \/ \E r \in Requests, f \in Forms, w \in Workers : Arrive(r, f, w)
  \/ \E r \in Requests : Reject(r)
  \/ \E r \in Requests : Invoke(r)
  \/ \E r \in Requests : CallCheck(r)
  \/ \E r \in Requests, res \in Results : CheckReturns(r, res)
  \/ \E r \in Requests, e \in CapabilityErrors : CheckRaises(r, e)
  \/ \E r \in Requests : CheckHangs(r)
  \/ \E r \in Requests : ReadChecked(r)
  \/ \E r \in Requests : ReturnSuccess(r)
  \/ \E r \in Requests : ReturnDegraded(r)

Spec == Init /\ [][Next]_vars

\* The event loop runs every ready step; the capability call of a request
\* returns, raises or hangs.
Fairness ==
  \A r \in Requests :
    /\ WF_vars(Reject(r))
    /\ WF_vars(Invoke(r))
    /\ WF_vars(CallCheck(r))
    /\ WF_vars((\E res \in Results : CheckReturns(r, res))
                 \/ (\E e \in CapabilityErrors : CheckRaises(r, e))
                 \/ CheckHangs(r))
    /\ WF_vars(ReadChecked(r))
    /\ WF_vars(ReturnSuccess(r))
    /\ WF_vars(ReturnDegraded(r))

FairSpec == Spec /\ Fairness

(* ------------------------------ properties ----------------------------- *)
Answered(r) == pc[r] = "done"
\* check_spelling was called for the request.
Invoked(r) == pc[r] \notin {"idle", "received"} /\ resp[r] # ValidationResponse
\* The capability call of the request returned a result / raised an error.
Returned(r) == result[r] # NoResult
CapabilityRaised(r) == result[r] = NoResult /\ exc[r] \in CapabilityErrors
\* A CorrectionResult: checked is a string and errors an integer.
WellFormed(res) == res.checked.t = "str" /\ res.errors.t = "int"
SuccessKeys == {"corrected", "original", "result"}
DegradedKeys == {"corrected", "original", "error"}
Submitted(r) == JsonString(form[r].text)

\* C1: when check(text) returns a CorrectionResult, the response has status
\* 200, original is the submitted text, corrected is the result's checked
\* value and result.errata_count is the result's errors value.
SuccessContract ==
  \A r \in Requests :
    (Answered(r) /\ form[r].has_text /\ Returned(r) /\ WellFormed(result[r])) =>
      /\ resp[r].status = 200
      /\ DOMAIN resp[r].body = SuccessKeys
      /\ resp[r].body.original = Submitted(r)
      /\ resp[r].body.corrected = ToJson(result[r].checked)
      /\ resp[r].body.result.errata_count = ToJson(result[r].errors)

SuccessWitness ==
  \E r \in Requests :
    /\ Answered(r) /\ Returned(r) /\ WellFormed(result[r])
    /\ resp[r].status = 200
    /\ result[r].checked.s # form[r].text
    /\ result[r].errors.n = 1

\* C2 as stated: when the capability raises an error, the response has
\* status 500, corrected and original are the submitted text and error is a
\* non-empty string.
DegradedErrorNonEmpty ==
  \A r \in Requests :
    (Answered(r) /\ CapabilityRaised(r)) =>
      /\ resp[r].status = 500
      /\ DOMAIN resp[r].body = DegradedKeys
      /\ resp[r].body.corrected = Submitted(r)
      /\ resp[r].body.original = Submitted(r)
      /\ resp[r].body.error.j = "string"
      /\ resp[r].body.error.s # ""

\* C2 amended: when the capability raises an error e, the response has status
\* 500, corrected and original are the submitted text and error is the
\* string str(e), which is empty exactly when e carries no message.
DegradedContract ==
  \A r \in Requests :
    (Answered(r) /\ CapabilityRaised(r)) =>
      /\ resp[r].status = 500
      /\ DOMAIN resp[r].body = DegradedKeys
      /\ resp[r].body.corrected = Submitted(r)
      /\ resp[r].body.original = Submitted(r)
      /\ resp[r].body.error.j = "string"
      /\ resp[r].body.error = JsonString(ExcStr(exc[r]))
      /\ (resp[r].body.error.s = "" <=> exc[r].args = <<>>)

DegradedWitness ==
  \E r \in Requests :
    /\ Answered(r) /\ CapabilityRaised(r)
    /\ resp[r].status = 500
    /\ resp[r].body.error.s = ""
    /\ resp[r].body.corrected.s = "a b"

\* C3: a request that reached check_spelling and whose capability call
\* returned or raised ends in a status-200 JSON body with corrected, original
\* and result, or in a status-500 JSON body with corrected, original and
\* error, never in a propagated exception; error is present exactly when the
\* output is the degraded one.
TwoOutcomes ==
  \A r \in Requests :
    (Answered(r) /\ Invoked(r)) =>
      /\ resp[r].kind = "json"
      /\ \/ resp[r].status = 200 /\ DOMAIN resp[r].body = SuccessKeys
         \/ resp[r].status = 500 /\ DOMAIN resp[r].body = DegradedKeys
      /\ ("error" \in DOMAIN resp[r].body) <=> (exc[r] # NoExc)
      /\ ("error" \in DOMAIN resp[r].body) <=> (resp[r].body.corrected = Submitted(r) /\ resp[r].status = 500)

TwoOutcomesWitness ==
  \E r1, r2 \in Requests :
    /\ Answered(r1) /\ Invoked(r1) /\ resp[r1].status = 200
    /\ Answered(r2) /\ Invoked(r2) /\ resp[r2].status = 500
    /\ exc[r2].cls = "TypeError"

\* C4: a request stays unanswered only if its own capability call never
\* returns: every request received is eventually answered unless its own
\* call hangs.
OnlyHungRequestUnanswered ==
  \A r \in Requests : (pc[r] = "received") ~> (pc[r] \in {"done", "hung"})

\* C5: a request without the text field is answered by the framework with a
\* 4xx status; check_spelling does not run for it, the capability is not
\* called, and neither envelope is produced.
RejectedBeforeLogic ==
  \A r \in Requests :
    (pc[r] # "idle" /\ ~form[r].has_text) =>
      /\ pc[r] \in {"received", "done"}
      /\ calls[r] = <<>>
      /\ Answered(r) =>
           /\ resp[r].status \in 400..499
           /\ DOMAIN resp[r].body \cap (SuccessKeys \cup DegradedKeys) = {}

RejectedWitness ==
  \E r \in Requests : Answered(r) /\ ~form[r].has_text /\ resp[r].status = 422

\* C6: an invocation of check_spelling calls the capability exactly once,
\* with the submitted text unmodified; a failed call is not retried, the
\* next step is the degraded response.
SingleCall ==
  \A r \in Requests :
    /\ Len(calls[r]) <= 1
    /\ pc[r] \in {"calling", "hung", "got_result", "build", "except"} =>
         calls[r] = <<form[r].text>>
    /\ (Answered(r) /\ Invoked(r)) => calls[r] = <<form[r].text>>
    /\ CapabilityRaised(r) => pc[r] \in {"except", "done"}

SingleCallWitness ==
  \E r \in Requests :
    /\ Answered(r) /\ CapabilityRaised(r)
    /\ calls[r] = <<"a b">>
    /\ resp[r].status = 500

\* C7: two requests with identical text whose capability calls have the same
\* outcome (the same result, or the same error) get identical responses.
Idempotent ==
  \A r1, r2 \in Requests :
    ( /\ Answered(r1) /\ Answered(r2)
      /\ form[r1] = form[r2]
      /\ result[r1] = result[r2]
      /\ result[r1] = NoResult => exc[r1] = exc[r2] ) =>
      resp[r1] = resp[r2]

IdempotentWitness ==
  \E r1, r2 \in Requests :
    /\ r1 # r2 /\ Answered(r1) /\ Answered(r2)
    /\ form[r1] = form[r2] /\ form[r1].has_text
    /\ result[r1] = result[r2] /\ WellFormed(result[r1])
    /\ resp[r1].status = 200 /\ resp[r2].status = 200

\* C8 as stated: if the capability returns a result with errors == 0, the
\* corrected field of the response equals the submitted text.
RoundTrip ==
  \A r \in Requests :
    (Answered(r) /\ Returned(r) /\ result[r].errors = PyInt(0)) =>
      resp[r].body.corrected = Submitted(r)

\* C8 amended: if the capability returns a result with errors == 0, the
\* corrected field equals the submitted text when the result's checked value
\* is the submitted text; when checked is another string, corrected is that
\* string.
RoundTripOfChecked ==
  \A r \in Requests :
    (Answered(r) /\ Returned(r) /\ result[r].errors = PyInt(0)) =>
      /\ result[r].checked = PyStr(form[r].text) => resp[r].body.corrected = Submitted(r)
      /\ result[r].checked.t = "str" => resp[r].body.corrected = ToJson(result[r].checked)

RoundTripWitness ==
  \E r \in Requests :
    /\ Answered(r) /\ Returned(r) /\ result[r].errors = PyInt(0)
    /\ result[r].checked = PyStr("ab") /\ form[r].text = "a b"
    /\ resp[r].status = 200

\* The fields of a response come from the request's own text, result and
\* exception.
IsolationState ==
  \A r \in Requests :
    (Answered(r) /\ Invoked(r)) =>
      /\ resp[r].body.original = Submitted(r)
      /\ resp[r].body.corrected \in {Submitted(r), ToJson(result[r].checked)}
      /\ resp[r].status = 200 => resp[r].body.result.errata_count = ToJson(result[r].errors)
      /\ resp[r].status = 500 => resp[r].body.error = JsonString(ExcStr(exc[r]))

\* A request's data change only in its own steps.
IsolationStep ==
  \A r \in Requests :
    pc'[r] = pc[r] =>
      /\ form'[r] = form[r] /\ text'[r] = text[r] /\ calls'[r] = calls[r]
      /\ result'[r] = result[r] /\ corrected'[r] = corrected[r]
      /\ exc'[r] = exc[r] /\ resp'[r] = resp[r]

FailureAfterReturn(r) ==
  \/ result[r].checked = Missing
  \/ result[r].errors = Missing
  \/ result[r].checked.t \notin {"str", "int"}
  \/ result[r].errors.t \notin {"str", "int"}

\* C10: a failure after the capability call has returned (a missing checked
\* or errors attribute, a value that cannot be serialised) ends in the
\* status-500 degraded envelope with corrected equal to the submitted text;
\* no partially built success response is returned.
PostCallFailureDegraded ==
  \A r \in Requests :
    /\ (Answered(r) /\ Returned(r) /\ FailureAfterReturn(r)) =>
         /\ resp[r].status = 500 /\ resp[r].kind = "json"
         /\ DOMAIN resp[r].body = DegradedKeys
         /\ resp[r].body.corrected = Submitted(r)
         /\ resp[r].body.original = Submitted(r)
         /\ resp[r].body.error.j = "string"
    /\ ~Answered(r) => resp[r] = NoResponse
    /\ (Answered(r) /\ resp[r].status = 200) =>
         /\ resp[r].body.corrected.j # "invalid"
         /\ resp[r].body.result.errata_count.j # "invalid"

PostCallFailureWitness ==
  \E r1, r2 \in Requests :
    /\ Answered(r1) /\ Returned(r1) /\ result[r1].errors = Missing
    /\ result[r1].checked.t = "str" /\ resp[r1].status = 500
    /\ Answered(r2) /\ Returned(r2) /\ result[r2].checked = PyBytes
    /\ resp[r2].status = 500
====
